---- MODULE Spec2Model ----
(***************************************************************************)
(* Startup-option store and parser of the Bazel client                     *)
(* (src/main/cpp/startup_options.cc).                                      *)
(*                                                                         *)
(* C++ strings are TLA+ strings; a character is a string of length one.    *)
(* A `const char*` is a record naming the buffer it points into and the    *)
(* offset inside that buffer, so that pointer equality (line 267) is       *)
(* modelled as pointer equality and not as equality of contents.           *)
(***************************************************************************)
EXTENDS Integers, Sequences, FiniteSets, TLC

\* ------------------------------------------------------------------ bounds
\* Longest host_jvm_args vector the model lets ProcessArg build.
MaxJvmArgs == 2
\* most GetDefaultHostJavabase() calls followed in one launch
MaxQueries == 4
\* longest JVM argument vector built in one launch
MaxResult == 3

\* ------------------------------------------------------- program constants
kint32max == 2147483647
kint32min == -kint32max - 1

SUCCESS == "SUCCESS"
BAD_ARGV == "BAD_ARGV"

PRODUCT_NAME == "Bazel"

\* ------------------------------------------------------------ environment
\* Working directory used by MakeAbsolute, the user name and the platform's
\* default output root: collaborators outside the modelled file.
Cwd == "/cwd"
GetUserName == "user"
GetOutputRoot == "/home/user/.cache"

\* ---------------------------------------------------------------- strings
CharAt(s, i) == SubSeq(s, i, i)

\* s contains sub as a contiguous substring
Contains(s, sub) ==
  \E i \in 0..(Len(s) - Len(sub)) : SubSeq(s, i + 1, i + Len(sub)) = sub

StartsWith(s, p) == Len(s) >= Len(p) /\ SubSeq(s, 1, Len(p)) = p

\* pointers
NULL == [buf |-> "null", off |-> 0]
ArgPtr(off) == [buf |-> "arg", off |-> off]
NextPtr == [buf |-> "next", off |-> 0]

\* the C string a pointer designates, given the two buffers of the call
Deref(p, argstr, next_argstr) ==
  IF p.buf = "arg" THEN SubSeq(argstr, p.off + 1, Len(argstr))
  ELSE IF p.buf = "next" THEN next_argstr
  ELSE ""

\* blaze_util::ToLower
LowerChar(c) ==
  CASE c = "A" -> "a" [] c = "B" -> "b" [] c = "C" -> "c" [] c = "D" -> "d"
    [] c = "E" -> "e" [] c = "F" -> "f" [] c = "G" -> "g" [] c = "H" -> "h"
    [] c = "I" -> "i" [] c = "J" -> "j" [] c = "K" -> "k" [] c = "L" -> "l"
    [] c = "M" -> "m" [] c = "N" -> "n" [] c = "O" -> "o" [] c = "P" -> "p"
    [] c = "Q" -> "q" [] c = "R" -> "r" [] c = "S" -> "s" [] c = "T" -> "t"
    [] c = "U" -> "u" [] c = "V" -> "v" [] c = "W" -> "w" [] c = "X" -> "x"
    [] c = "Y" -> "y" [] c = "Z" -> "z" [] OTHER -> c

RECURSIVE ToLower(_)
ToLower(s) ==
  IF s = "" THEN "" ELSE LowerChar(CharAt(s, 1)) \o ToLower(Tail(s))

\* blaze_util::JoinPath
JoinPath(path1, path2) ==
  IF path1 = "" THEN path2
  ELSE IF CharAt(path1, Len(path1)) = "/" THEN path1 \o path2
  ELSE path1 \o "/" \o path2

\* blaze::MakeAbsolute
MakeAbsolute(path) ==
  IF path = "" \/ CharAt(path, 1) = "/" THEN path
  ELSE Cwd \o (IF CharAt(Cwd, Len(Cwd)) = "/" THEN "" ELSE "/") \o path

\* blaze_util::safe_strto32: an optional sign followed by one or more
\* decimal digits, the whole inside the 32-bit range.
DigitValue(c) ==
  CASE c = "0" -> 0 [] c = "1" -> 1 [] c = "2" -> 2 [] c = "3" -> 3
    [] c = "4" -> 4 [] c = "5" -> 5 [] c = "6" -> 6 [] c = "7" -> 7
    [] c = "8" -> 8 [] c = "9" -> 9 [] OTHER -> 36

\* accumulate the digits of s from position i without leaving the 32-bit
\* range: a non-negative number upwards, a negative one downwards
RECURSIVE ParseDigits(_, _, _, _)
ParseDigits(s, i, value, negative) ==
  IF i > Len(s) THEN [ok |-> TRUE, val |-> value]
  ELSE LET digit == DigitValue(CharAt(s, i))
           vmax_over_base == kint32max \div 10
           vmin_over_base == -(kint32max \div 10)
       IN IF digit >= 10 THEN [ok |-> FALSE, val |-> value]
          ELSE IF ~negative
            THEN IF value > vmax_over_base \/ value * 10 > kint32max - digit
                   THEN [ok |-> FALSE, val |-> kint32max]
                   ELSE ParseDigits(s, i + 1, value * 10 + digit, negative)
            ELSE IF value < vmin_over_base \/ value * 10 < kint32min + digit
                   THEN [ok |-> FALSE, val |-> kint32min]
                   ELSE ParseDigits(s, i + 1, value * 10 - digit, negative)

safe_strto32(text) ==
  LET signed == text # "" /\ CharAt(text, 1) \in {"-", "+"}
      negative == text # "" /\ CharAt(text, 1) = "-"
      start == IF signed THEN 2 ELSE 1
  IN IF start > Len(text) THEN [ok |-> FALSE, val |-> 0]
     ELSE ParseDigits(text, start, 0, negative)

\* blaze::GetUnaryOption: the value of `--key=value` or `--key value`,
\* NULL when arg is not this option or no value is available.
GetUnaryOption(arg, next_arg, key) ==
  IF ~StartsWith(arg, key) THEN NULL
  ELSE IF Len(arg) > Len(key) /\ CharAt(arg, Len(key) + 1) = "="
         THEN ArgPtr(Len(key) + 1)
  ELSE IF Len(arg) > Len(key) THEN NULL
  ELSE next_arg

\* blaze::GetNullaryOption: arg is exactly the option's spelling.
GetNullaryOption(arg, key) == arg = key

\* ------------------------------------------------------- the option store
VARIABLES
  env_TEST_TMPDIR,     \* getenv("TEST_TMPDIR"): a pointer-like record
  store,               \* the StartupOptions object: one field per member
  argstr,              \* arguments of the most recent ProcessArg call
  next_argstr,
  rcfile,
  ret,                 \* its exit code ("NONE" before the first call)
  is_space_separated,  \* the caller's out-parameters
  error,
  vocabulary,          \* which family of tokens this run's caller feeds in
  \* history of the calls made so far
  assigned,            \* names of the members ProcessArg has written
  stream_ok,           \* no call has failed: the caller is still in its loop
  last_flag,           \* per boolean option, the last token spelling it
  \* a second client run fed the same tokens under other source labels
  store2,
  rcfile2,
  ret2,
  \* the launch of the server, after the tokens are parsed
  phase,               \* "parsing", then "validated"
  default_javabase,    \* what blaze::GetDefaultHostJavabase() answers
  fs,                  \* the files access() finds executable / readable
  op,                  \* the most recent operation of the launch
  returned,            \* what it returned
  exit_status,         \* "running", or "exit(1)" once the process has ended
  result,              \* the std::vector<string> of JVM arguments being built
  write_ok,            \* whether the most recent WriteFile succeeded
  \* history of the launch
  javabase_queries,    \* number of GetDefaultHostJavabase() calls so far
  javabase_returned    \* the values GetHostJavabase() has returned so far

launch_vars == <<phase, default_javabase, fs, op, returned, exit_status,
                 result, write_ok, javabase_queries, javabase_returned>>

vars == <<env_TEST_TMPDIR, store, argstr, next_argstr, rcfile, ret,
          is_space_separated, error, vocabulary, assigned, stream_ok,
          last_flag, store2, rcfile2, ret2, phase, default_javabase, fs, op,
          returned, exit_status, result, write_ok, javabase_queries,
          javabase_returned>>

\* std::map<string, string> option_sources
EmptyMap == [k \in {} |-> ""]
Put(m, key, v) == [k \in DOMAIN m \cup {key} |-> IF k = key THEN v ELSE m[k]]

\* const char* invocation_policy
NoPolicy == [null |-> TRUE, str |-> ""]
Policy(str) == [null |-> FALSE, str |-> str]

\* variant of DefaultMaxIdleSecs that ignores test mode
DefaultMaxIdleSecs_NoTestMode(testing) == 3 * 3600

\* lines 64-68: 15 seconds in test mode, three hours otherwise
DefaultMaxIdleSecs(testing) == IF testing THEN 15 ELSE 3 * 3600

\* StartupOptions::Init (std::string and std::vector members that Init does
\* not assign are default-constructed: empty).
StartupOptionsInit(tmpdir) ==
  LET testing == ~tmpdir.null
      output_root == IF testing THEN MakeAbsolute(tmpdir.str) ELSE GetOutputRoot
      product_name_lower == ToLower(PRODUCT_NAME)
  IN [ output_root |-> output_root,
       product_name |-> PRODUCT_NAME,
       output_user_root |->
         JoinPath(output_root, "_" \o product_name_lower \o "_" \o GetUserName),
       output_base |-> "",
       install_base |-> "",
       deep_execroot |-> TRUE,
       block_for_lock |-> TRUE,
       host_jvm_debug |-> FALSE,
       host_jvm_profile |-> "",
       host_javabase |-> "",
       host_jvm_args |-> <<>>,
       batch |-> FALSE,
       batch_cpu_scheduling |-> FALSE,
       allow_configurable_attributes |-> FALSE,
       fatal_event_bus_exceptions |-> FALSE,
       io_nice_level |-> -1,
       max_idle_secs |-> DefaultMaxIdleSecs(testing),
       oom_more_eagerly_threshold |-> 100,
       command_port |-> 0,
       oom_more_eagerly |-> FALSE,
       watchfs |-> FALSE,
       invocation_policy |-> NoPolicy,
       option_sources |-> EmptyMap ]

\* what one ProcessArg call yields: the store after it, the exit code, the
\* local `value`, the error text and the members it wrote
Result(s, code, value, err, wrote) ==
  [store |-> s, ret |-> code, value |-> value, error |-> err, wrote |-> wrote]

\* `member = v; option_sources[key] = rcfile;`
Assign(s, member, v, key, label) ==
  [s EXCEPT ![member] = v, !.option_sources = Put(@, key, label)]

\* variant of AssignPath that stores the value as given
AssignPath_Raw(s, member, text, key, label) == Assign(s, member, text, key, label)

\* an absolutized path option, e.g. lines 97-99:
\* `output_base = MakeAbsolute(value); option_sources["output_base"] = rcfile;`
AssignPath(s, member, text, key, label) ==
  Assign(s, member, MakeAbsolute(text), key, label)

\* variant of HostJvmArgsBranch that keeps only the latest value
HostJvmArgsBranch_Overwrite(s, value, text, label) ==
  [store |-> Assign(s, "host_jvm_args", <<text>>, "host_jvm_args", label),
   ret |-> SUCCESS, value |-> value, error |-> "", wrote |-> {"host_jvm_args"}]

\* lines 130-133
HostJvmArgsBranch(s, value, text, label) ==
  [store |-> Assign(s, "host_jvm_args", Append(s.host_jvm_args, text),
                    "host_jvm_args", label),
   ret |-> SUCCESS, value |-> value, error |-> "", wrote |-> {"host_jvm_args"}]

\* variants of AssignBool: the first assignment of an option sticks
AssignBool_FirstWins(s, member, b, key, label) ==
  IF key \in DOMAIN s.option_sources THEN s ELSE Assign(s, member, b, key, label)

\* an rc file cannot override what the command line set
AssignBool_CommandLineWins(s, member, b, key, label) ==
  IF key \in DOMAIN s.option_sources /\ s.option_sources[key] = "" /\ label # ""
    THEN s ELSE Assign(s, member, b, key, label)

\* the negative spelling sets the member like the positive one
AssignBool_AlwaysTrue(s, member, b, key, label) ==
  Assign(s, member, TRUE, key, label)

\* a nullary branch of a boolean option, e.g. lines 158-163:
\* `batch = true; option_sources["batch"] = rcfile;`
AssignBool(s, member, b, key, label) == Assign(s, member, b, key, label)

\* variant of RcFileBranch without the nesting guard
RcFileBranch_NoGuard(s, value, label, name) == Result(s, SUCCESS, value, "", {})

\* lines 134-143: --bazelrc / --blazerc are refused inside an rc file and
\* otherwise accepted without touching the store
RcFileBranch(s, value, label, name) ==
  IF label # ""
    THEN Result(s, BAD_ARGV, value,
                "Can't specify --" \o name \o " in the ." \o name \o " file.", {})
    ELSE Result(s, SUCCESS, value, "", {})

\* lines 144-157: --[no]master_bazelrc / --[no]master_blazerc
MasterRcBranch(s, label, name) ==
  IF label # ""
    THEN Result(s, BAD_ARGV, NULL,
                "Can't specify --[no]master_" \o name \o " in ." \o name \o " file.",
                {})
    ELSE Result([s EXCEPT !.option_sources = Put(@, "blazerc", label)],
                SUCCESS, NULL, "", {})

\* `safe_strto32(value, &member)`: the conversion writes through the pointer.
\* What a failed conversion leaves in the member is not fixed by this file:
\* `leftover` says whether the member is left alone and, if not, what it holds.
StrTo32Into(old, text, leftover) ==
  LET p == safe_strto32(text)
  IN [ok |-> p.ok,
      out |-> IF p.ok THEN p.val ELSE IF leftover.kept THEN old ELSE leftover.val,
      written |-> p.ok \/ ~leftover.kept]

\* variant of IoNiceLevelBranch with the limit off by one
IoNiceLevelBranch_OffByOne(s, value, text, label, leftover) ==
  LET c == StrTo32Into(s.io_nice_level, text, leftover)
      s1 == [s EXCEPT !.io_nice_level = c.out]
      wrote == IF c.written THEN {"io_nice_level"} ELSE {}
  IN IF ~c.ok \/ s1.io_nice_level > 8
       THEN Result(s1, BAD_ARGV, value,
                   "Invalid argument to --io_nice_level: '" \o text
                     \o "'. Must not exceed 7.", wrote)
       ELSE Result([s1 EXCEPT !.option_sources = Put(@, "io_nice_level", label)],
                   SUCCESS, value, "", wrote)

\* lines 182-191
IoNiceLevelBranch(s, value, text, label, leftover) ==
  LET c == StrTo32Into(s.io_nice_level, text, leftover)
      s1 == [s EXCEPT !.io_nice_level = c.out]
      wrote == IF c.written THEN {"io_nice_level"} ELSE {}
  IN IF ~c.ok \/ s1.io_nice_level > 7
       THEN Result(s1, BAD_ARGV, value,
                   "Invalid argument to --io_nice_level: '" \o text
                     \o "'. Must not exceed 7.", wrote)
       ELSE Result([s1 EXCEPT !.option_sources = Put(@, "io_nice_level", label)],
                   SUCCESS, value, "", wrote)

\* lines 192-200
MaxIdleSecsBranch(s, value, text, label, leftover) ==
  LET c == StrTo32Into(s.max_idle_secs, text, leftover)
      s1 == [s EXCEPT !.max_idle_secs = c.out]
      wrote == IF c.written THEN {"max_idle_secs"} ELSE {}
  IN IF ~c.ok \/ s1.max_idle_secs < 0
       THEN Result(s1, BAD_ARGV, value,
                   "Invalid argument to --max_idle_secs: '" \o text \o "'.", wrote)
       ELSE Result([s1 EXCEPT !.option_sources = Put(@, "max_idle_secs", label)],
                   SUCCESS, value, "", wrote)

\* lines 210-222
OomMoreEagerlyThresholdBranch(s, value, text, label, leftover) ==
  LET c == StrTo32Into(s.oom_more_eagerly_threshold, text, leftover)
      s1 == [s EXCEPT !.oom_more_eagerly_threshold = c.out]
      wrote == IF c.written THEN {"oom_more_eagerly_threshold"} ELSE {}
  IN IF ~c.ok \/ s1.oom_more_eagerly_threshold < 0
       THEN Result(s1, BAD_ARGV, value,
                   "Invalid argument to --experimental_oom_more_eagerly_threshold: '"
                     \o text \o "'.", wrote)
       ELSE Result([s1 EXCEPT !.option_sources =
                      Put(@, "experimental_oom_more_eagerly_threshold", label)],
                   SUCCESS, value, "", wrote)

\* lines 229-239
CommandPortBranch(s, value, text, label, leftover) ==
  LET c == StrTo32Into(s.command_port, text, leftover)
      s1 == [s EXCEPT !.command_port = c.out]
      wrote == IF c.written THEN {"command_port"} ELSE {}
  IN IF ~c.ok \/ s1.command_port < -1 \/ s1.command_port > 65535
       THEN Result(s1, BAD_ARGV, value,
                   "Invalid argument to --command_port: '" \o text \o "'. "
                     \o "Must be a valid port number or -1 to disable the gRPC server.\n",
                   wrote)
       ELSE Result([s1 EXCEPT !.option_sources = Put(@, "webstatusserver", label)],
                   SUCCESS, value, "", wrote)

\* variant of InvocationPolicyBranch that overwrites an earlier policy
InvocationPolicyBranch_Overwrite(s, value, text, label) ==
  Result(Assign(s, "invocation_policy", Policy(text), "invocation_policy", label),
         SUCCESS, value, "", {"invocation_policy"})

\* lines 240-249
InvocationPolicyBranch(s, value, text, label) ==
  IF s.invocation_policy.null
    THEN Result(Assign(s, "invocation_policy", Policy(text),
                       "invocation_policy", label),
                SUCCESS, value, "", {"invocation_policy"})
    ELSE Result(s, BAD_ARGV, value,
                "The startup flag --invocation_policy cannot be specified "
                  \o "multiple times.", {})

\* variant of ProcessArgExtra that fails with another exit code
ProcessArgExtra_InternalError(arg, next_arg, label) ==
  [ret |-> "INTERNAL_ERROR", is_processed |-> FALSE, value |-> NULL]

\* StartupOptions::ProcessArgExtra (the base class: recognises nothing)
ProcessArgExtra(arg, next_arg, label) ==
  [ret |-> SUCCESS, is_processed |-> FALSE, value |-> NULL]

\* variant of UnknownBranch whose message does not quote the token
UnknownBranch_NoToken(s, arg, next_arg, label) ==
  Result(s, BAD_ARGV, NULL,
         "Unknown " \o s.product_name \o " startup option.\n"
           \o "  For more info, run '" \o s.product_name
           \o " help startup_options'.", {})

\* lines 250-265
UnknownBranch(s, arg, next_arg, label) ==
  LET x == ProcessArgExtra(arg, next_arg, label)
  IN IF x.ret # SUCCESS THEN Result(s, x.ret, x.value, "", {})
     ELSE IF ~x.is_processed
       THEN Result(s, BAD_ARGV, x.value,
                   "Unknown " \o s.product_name \o " startup option: '" \o arg
                     \o "'.\n  For more info, run '" \o s.product_name
                     \o " help startup_options'.", {})
     ELSE Result(s, SUCCESS, x.value, "", {})

\* variant of IsSpaceSeparated that reports any value as space separated
IsSpaceSeparated_AnyValue(value, next_arg) == value # NULL

\* line 267
IsSpaceSeparated(value, next_arg) == (value = next_arg) /\ (value # NULL)

\* StartupOptions::ProcessArg, lines 87-269.  In a nullary branch the local
\* `value` is NULL: every GetUnaryOption tried before it returned NULL.
ProcessArg(s, arg, next, label, leftover) ==
  LET next_arg == IF next = "" THEN NULL ELSE NextPtr
      U(key) == GetUnaryOption(arg, next_arg, key)
      N(key) == GetNullaryOption(arg, key)
      T(value) == Deref(value, arg, next)
      Path(member, key, value) ==
        Result(AssignPath(s, member, T(value), key, label),
               SUCCESS, value, "", {member})
      Bool(member, b, key) ==
        Result(AssignBool(s, member, b, key, label), SUCCESS, NULL, "", {member})
  IN
  IF U("--output_base") # NULL
    THEN Path("output_base", "output_base", U("--output_base"))
  ELSE IF U("--install_base") # NULL
    THEN Path("install_base", "install_base", U("--install_base"))
  ELSE IF U("--output_user_root") # NULL
    THEN Path("output_user_root", "output_user_root", U("--output_user_root"))
  ELSE IF N("--deep_execroot") THEN Bool("deep_execroot", TRUE, "deep_execroot")
  ELSE IF N("--nodeep_execroot") THEN Bool("deep_execroot", FALSE, "deep_execroot")
  ELSE IF N("--noblock_for_lock") THEN Bool("block_for_lock", FALSE, "block_for_lock")
  ELSE IF N("--host_jvm_debug") THEN Bool("host_jvm_debug", TRUE, "host_jvm_debug")
  ELSE IF U("--host_jvm_profile") # NULL
    THEN Result(Assign(s, "host_jvm_profile", T(U("--host_jvm_profile")),
                       "host_jvm_profile", label),
                SUCCESS, U("--host_jvm_profile"), "", {"host_jvm_profile"})
  ELSE IF U("--host_javabase") # NULL
    THEN Path("host_javabase", "host_javabase", U("--host_javabase"))
  ELSE IF U("--host_jvm_args") # NULL
    THEN HostJvmArgsBranch(s, U("--host_jvm_args"), T(U("--host_jvm_args")), label)
  ELSE IF U("--bazelrc") # NULL
    THEN RcFileBranch(s, U("--bazelrc"), label, "bazelrc")
  ELSE IF U("--blazerc") # NULL
    THEN RcFileBranch(s, U("--blazerc"), label, "blazerc")
  ELSE IF N("--nomaster_blazerc") \/ N("--master_blazerc")
    THEN MasterRcBranch(s, label, "blazerc")
  ELSE IF N("--nomaster_bazelrc") \/ N("--master_bazelrc")
    THEN MasterRcBranch(s, label, "bazelrc")
  ELSE IF N("--batch") THEN Bool("batch", TRUE, "batch")
  ELSE IF N("--nobatch") THEN Bool("batch", FALSE, "batch")
  ELSE IF N("--batch_cpu_scheduling")
    THEN Bool("batch_cpu_scheduling", TRUE, "batch_cpu_scheduling")
  ELSE IF N("--nobatch_cpu_scheduling")
    THEN Bool("batch_cpu_scheduling", FALSE, "batch_cpu_scheduling")
  ELSE IF N("--allow_configurable_attributes")
    THEN Bool("allow_configurable_attributes", TRUE, "allow_configurable_attributes")
  ELSE IF N("--noallow_configurable_attributes")
    THEN Bool("allow_configurable_attributes", FALSE, "allow_configurable_attributes")
  ELSE IF N("--fatal_event_bus_exceptions")
    THEN Bool("fatal_event_bus_exceptions", TRUE, "fatal_event_bus_exceptions")
  ELSE IF N("--nofatal_event_bus_exceptions")
    THEN Bool("fatal_event_bus_exceptions", FALSE, "fatal_event_bus_exceptions")
  ELSE IF U("--io_nice_level") # NULL
    THEN IoNiceLevelBranch(s, U("--io_nice_level"), T(U("--io_nice_level")),
                           label, leftover)
  ELSE IF U("--max_idle_secs") # NULL
    THEN MaxIdleSecsBranch(s, U("--max_idle_secs"), T(U("--max_idle_secs")),
                           label, leftover)
  ELSE IF N("-x") THEN Result(s, SUCCESS, NULL, "", {})
  ELSE IF N("--experimental_oom_more_eagerly")
    THEN Bool("oom_more_eagerly", TRUE, "experimental_oom_more_eagerly")
  ELSE IF N("--noexperimental_oom_more_eagerly")
    THEN Bool("oom_more_eagerly", FALSE, "experimental_oom_more_eagerly")
  ELSE IF U("--experimental_oom_more_eagerly_threshold") # NULL
    THEN OomMoreEagerlyThresholdBranch(
           s, U("--experimental_oom_more_eagerly_threshold"),
           T(U("--experimental_oom_more_eagerly_threshold")), label, leftover)
  ELSE IF N("--watchfs") THEN Bool("watchfs", TRUE, "watchfs")
  ELSE IF N("--nowatchfs") THEN Bool("watchfs", FALSE, "watchfs")
  ELSE IF U("--command_port") # NULL
    THEN CommandPortBranch(s, U("--command_port"), T(U("--command_port")),
                           label, leftover)
  ELSE IF U("--invocation_policy") # NULL
    THEN InvocationPolicyBranch(s, U("--invocation_policy"),
                                T(U("--invocation_policy")), label)
  ELSE UnknownBranch(s, arg, next_arg, label)

\* the caller's view of one call: the exit code, the store and the two
\* out-parameters, which the caller hands in as `false` and an empty string
\* and which ProcessArg writes only on the paths that write them
Call(s, arg, next, label, leftover) ==
  LET r == ProcessArg(s, arg, next, label, leftover)
      next_arg == IF next = "" THEN NULL ELSE NextPtr
  IN [store |-> r.store,
      ret |-> r.ret,
      is_space_separated |->
        IF r.ret = SUCCESS THEN IsSpaceSeparated(r.value, next_arg) ELSE FALSE,
      error |-> IF r.ret = SUCCESS THEN "" ELSE r.error,
      wrote |-> r.wrote]

\* ------------------------------------------------------ the caller's inputs
\* `--key`, and `--key=v` for each v
Forms(key, vals) == {key} \cup {key \o "=" \o v : v \in vals}

\* source labels: the command line and an rc file
Labels == {"", "/home/user/.bazelrc"}

\* what a failed safe_strto32 may leave behind
Leftovers == {[kept |-> TRUE, val |-> 0],
              [kept |-> FALSE, val |-> 0],
              [kept |-> FALSE, val |-> kint32max]}

TmpDirs == {[null |-> TRUE, str |-> ""], [null |-> FALSE, str |-> "t"]}

\* families of tokens; a run of the model draws its tokens from one family
Vocabularies ==
  [ paths |->
      [args |-> Forms("--output_base", {"/x", "y", ""})
                  \cup Forms("--install_base", {"/x", "y"}),
       nexts |-> {"", "y"}],
    roots |->
      [args |-> Forms("--output_user_root", {"/x", "y"})
                  \cup Forms("--host_javabase", {"/x", "y"})
                  \cup Forms("--host_jvm_profile", {"y"}),
       nexts |-> {"", "y"}],
    execroot |->
      [args |-> {"--deep_execroot", "--nodeep_execroot", "--noblock_for_lock",
                 "--block_for_lock", "--host_jvm_debug", "--nohost_jvm_debug"},
       nexts |-> {"", "y"}],
    batch |->
      [args |-> {"--batch", "--nobatch", "--batch_cpu_scheduling",
                 "--nobatch_cpu_scheduling", "--batch_cpu", "build"},
       nexts |-> {"", "y"}],
    attributes |->
      [args |-> {"--allow_configurable_attributes",
                 "--noallow_configurable_attributes",
                 "--fatal_event_bus_exceptions",
                 "--nofatal_event_bus_exceptions"},
       nexts |-> {"", "y"}],
    watchfs |->
      [args |-> {"--experimental_oom_more_eagerly",
                 "--noexperimental_oom_more_eagerly",
                 "--watchfs", "--nowatchfs", "-x"},
       nexts |-> {"", "y"}],
    rc |->
      [args |-> Forms("--bazelrc", {"/x"}) \cup Forms("--blazerc", {"/x"})
                  \cup {"--master_bazelrc", "--nomaster_bazelrc",
                        "--master_blazerc", "--nomaster_blazerc", "--batch"},
       nexts |-> {"", "/x"}],
    nice |->
      [args |-> Forms("--io_nice_level",
                      {"7", "8", "-1", "-20", "x", "", "2147483648"}),
       nexts |-> {"", "7", "8", "x"}],
    idle |->
      [args |-> Forms("--max_idle_secs",
                      {"0", "-1", "15", "1x", "2147483647", "2147483648"}),
       nexts |-> {"", "0", "-1"}],
    threshold |->
      [args |-> Forms("--experimental_oom_more_eagerly_threshold",
                      {"0", "-1", "100", "-"})
                  \cup {"--experimental_oom_more_eagerly"},
       nexts |-> {"", "0", "-1"}],
    port |->
      [args |-> Forms("--command_port",
                      {"-1", "-2", "0", "80", "65535", "65536", ""}),
       nexts |-> {"", "80", "65536"}],
    policy |->
      [args |-> Forms("--invocation_policy", {"p", "q", ""}) \cup {"--batch"},
       nexts |-> {"", "q"}],
    jvmargs |->
      [args |-> Forms("--host_jvm_args", {"a", "b"}),
       nexts |-> {"", "a"}],
    mixed |->
      [args |-> {"--batch", "--output_base=y", "--io_nice_level=8",
                 "--command_port=80", "--host_jvm_args=a", "--unknown"},
       nexts |-> {""}],
    launch |->
      [args |-> {"--host_javabase=/opt/jre", "--host_javabase=/opt/jdk",
                 "--output_base=/out", "--batch"},
       nexts |-> {""}] ]

\* ------------------------------------------------ the machine's environment
\* A machine with a full JDK under /usr/lib/jvm (rt.jar under jre/lib), a JRE
\* under /opt/jre (rt.jar under lib), a launcher under /opt/jdk that may not be
\* executed, and a /bin/java with no rt.jar next to it; and a machine with
\* no Java at all.
FileSystems ==
  { [executable |-> {"/usr/lib/jvm/bin/java", "/opt/jre/bin/java", "/bin/java"},
     readable |-> {"/usr/lib/jvm/bin/java", "/usr/lib/jvm/jre/lib/rt.jar",
                   "/opt/jre/bin/java", "/opt/jre/lib/rt.jar",
                   "/opt/jdk/bin/java", "/opt/jdk/jre/lib/rt.jar",
                   "/bin/java"}],
    [executable |-> {}, readable |-> {}] }

\* what blaze::GetDefaultHostJavabase() may answer: a JDK, or nothing found
DefaultJavabases == {"/usr/lib/jvm", ""}

\* the launch is explored with the tokens that set what it reads
FileSystemsOf(v) ==
  IF v = "launch" THEN FileSystems
  ELSE {fsys \in FileSystems : fsys.executable # {}}
DefaultJavabasesOf(v) ==
  IF v = "launch" THEN DefaultJavabases ELSE {"/usr/lib/jvm"}

\* ------------------------------------------------------- runtime resolver
\* access(path, X_OK) and access(path, R_OK): 0, or -1
access_X_OK(fsys, path) == IF path \in fsys.executable THEN 0 ELSE -1
access_R_OK(fsys, path) == IF path \in fsys.readable THEN 0 ELSE -1

\* variant of GetHostJavabaseCall that files the default under option_sources
GetHostJavabaseCall_RecordsSource(s, dflt, queries) ==
  IF s.host_javabase = ""
    THEN [store |-> Assign(s, "host_javabase", dflt, "host_javabase", "default"),
          value |-> dflt, queries |-> queries + 1]
    ELSE [store |-> s, value |-> s.host_javabase, queries |-> queries]

\* StartupOptions::GetHostJavabase: the store after the call, the value
\* returned and the number of GetDefaultHostJavabase() calls made so far
GetHostJavabaseCall(s, dflt, queries) ==
  IF s.host_javabase = ""
    THEN [store |-> [s EXCEPT !.host_javabase = dflt],
          value |-> dflt, queries |-> queries + 1]
    ELSE [store |-> s, value |-> s.host_javabase, queries |-> queries]

\* what a GetJvm call yields: the store after it, whether it returned or
\* ended the process, the value returned and the queries made so far
JvmResult(c, exits, value) ==
  [store |-> c.store, exits |-> exits, value |-> value, queries |-> c.queries]

\* variant of GetJvmCall that does not look for rt.jar
GetJvmCall_LauncherOnly(s, dflt, fsys, queries) ==
  LET c1 == GetHostJavabaseCall(s, dflt, queries)
      java_program == c1.value \o "/bin/java"
  IN IF access_X_OK(fsys, java_program) = -1
       THEN JvmResult(c1, TRUE, "")
       ELSE JvmResult(c1, FALSE, java_program)

\* StartupOptions::GetJvm; the messages it prints before exit(1) go to
\* stderr, which is not part of the state
GetJvmCall(s, dflt, fsys, queries) ==
  LET c1 == GetHostJavabaseCall(s, dflt, queries)
      java_program == c1.value \o "/bin/java"
      c2 == GetHostJavabaseCall(c1.store, dflt, c1.queries)
      jdk_rt_jar == c2.value \o "/jre/lib/rt.jar"
      c3 == GetHostJavabaseCall(c2.store, dflt, c2.queries)
      jre_rt_jar == c3.value \o "/lib/rt.jar"
      c4 == GetHostJavabaseCall(c3.store, dflt, c3.queries)
  IN IF access_X_OK(fsys, java_program) = -1
       THEN JvmResult(c1, TRUE, "")
     ELSE IF \/ access_R_OK(fsys, jdk_rt_jar) = 0
             \/ access_R_OK(fsys, jre_rt_jar) = 0
       THEN JvmResult(c3, FALSE, java_program)
     ELSE JvmResult(c4, TRUE, "")

\* blaze::ConvertPath on a POSIX host returns the path as it is
ConvertPath(path) == path

\* StartupOptions::AddJVMArgumentSuffix
AddJVMArgumentSuffixCall(real_install_dir, jar_path, vec) ==
  Append(Append(vec, "-jar"), ConvertPath(JoinPath(real_install_dir, jar_path)))

\* variant of AddJVMArgumentsCall that passes the option whatever WriteFile says
AddJVMArgumentsCall_AlwaysPush(s, vec, written) ==
  [result |-> Append(vec, "-Djava.util.logging.config.file="
                            \o s.output_base \o "/javalog.properties"),
   ret |-> SUCCESS]

\* StartupOptions::AddJVMArguments; `written` is what WriteFile returned
AddJVMArgumentsCall(s, vec, written) ==
  LET propFile == s.output_base \o "/javalog.properties"
  IN IF ~written
       THEN [result |-> vec, ret |-> SUCCESS]
       ELSE [result |-> Append(vec, "-Djava.util.logging.config.file=" \o propFile),
             ret |-> SUCCESS]

\* ------------------------------------------------- history of the stream
\* boolean members and the flag each is spelled with (--flag / --noflag)
BoolFlag ==
  [ deep_execroot |-> "deep_execroot",
    block_for_lock |-> "block_for_lock",
    host_jvm_debug |-> "host_jvm_debug",
    batch |-> "batch",
    batch_cpu_scheduling |-> "batch_cpu_scheduling",
    allow_configurable_attributes |-> "allow_configurable_attributes",
    fatal_event_bus_exceptions |-> "fatal_event_bus_exceptions",
    oom_more_eagerly |-> "experimental_oom_more_eagerly",
    watchfs |-> "watchfs" ]

BoolMembers == DOMAIN BoolFlag

NoFlagYet == [seen |-> FALSE, value |-> FALSE, label |-> "", overrode |-> FALSE]

\* the record of the last token spelling each boolean option; `overrode`
\* marks a token that reversed an earlier one that came under another label
LastFlagAfter(lf, arg, label) ==
  [m \in BoolMembers |->
     IF arg = "--" \o BoolFlag[m]
       THEN [seen |-> TRUE, value |-> TRUE, label |-> label,
             overrode |-> lf[m].seen /\ ~lf[m].value /\ lf[m].label # label]
     ELSE IF arg = "--no" \o BoolFlag[m]
       THEN [seen |-> TRUE, value |-> FALSE, label |-> label,
             overrode |-> lf[m].seen /\ lf[m].value /\ lf[m].label # label]
     ELSE lf[m]]

\* ------------------------------------------------------------ the machine
\* Test mode (TEST_TMPDIR set) changes two defaults, output_user_root and
\* max_idle_secs: it is explored with the tokens that assign these members.
TmpDirsOf(v) ==
  IF v \in {"roots", "idle"} THEN TmpDirs ELSE {[null |-> TRUE, str |-> ""]}

\* the state after `StartupOptions options;`
Init ==
  /\ vocabulary \in DOMAIN Vocabularies
  /\ env_TEST_TMPDIR \in TmpDirsOf(vocabulary)
  /\ store = StartupOptionsInit(env_TEST_TMPDIR)
  /\ argstr = ""
  /\ next_argstr = ""
  /\ rcfile = ""
  /\ ret = "NONE"
  /\ is_space_separated = FALSE
  /\ error = ""
  /\ assigned = {}
  /\ stream_ok = TRUE
  /\ last_flag = [m \in BoolMembers |-> NoFlagYet]
  /\ store2 = store
  /\ rcfile2 = ""
  /\ ret2 = "NONE"
  /\ phase = "parsing"
  /\ default_javabase \in DefaultJavabasesOf(vocabulary)
  /\ fs \in FileSystemsOf(vocabulary)
  /\ op = "none"
  /\ returned = ""
  /\ exit_status = "running"
  /\ result = <<>>
  /\ write_ok = FALSE
  /\ javabase_queries = 0
  /\ javabase_returned = {}

\* one call options.ProcessArg(arg, next, label, &is_space_separated, &error)
Run(arg, next, label, leftover) ==
  \E c \in {Call(store, arg, next, label, leftover)} :
     /\ phase = "parsing"
     /\ Len(c.store.host_jvm_args) <= MaxJvmArgs
     /\ store' = c.store
     /\ argstr' = arg
     /\ next_argstr' = next
     /\ rcfile' = label
     /\ ret' = c.ret
     /\ is_space_separated' = c.is_space_separated
     /\ error' = c.error
     /\ assigned' = assigned \cup c.wrote
     /\ stream_ok' = (stream_ok /\ c.ret = SUCCESS)
     /\ last_flag' = LastFlagAfter(last_flag, arg, label)
     /\ UNCHANGED <<env_TEST_TMPDIR, vocabulary>>
     /\ UNCHANGED launch_vars

DoProcessArg(arg, next, label, leftover) ==
  /\ Run(arg, next, label, leftover)
  /\ UNCHANGED <<store2, rcfile2, ret2>>

\* the same call made in both runs, each under its own label; the caller's
\* loop ends at the first failure (of either run)
DoProcessArgTwice(arg, next, label, label2, leftover) ==
  /\ ret # BAD_ARGV
  /\ ret2 # BAD_ARGV
  /\ Run(arg, next, label, leftover)
  /\ \E c2 \in {Call(store2, arg, next, label2, leftover)} :
       /\ store2' = c2.store
       /\ rcfile2' = label2
       /\ ret2' = c2.ret

\* a failed conversion can only matter to a call that converts a number
LeftoversOf(arg) ==
  IF \E key \in {"--io_nice_level", "--max_idle_secs",
                 "--experimental_oom_more_eagerly_threshold", "--command_port"} :
       StartsWith(arg, key)
    THEN Leftovers
    ELSE {[kept |-> TRUE, val |-> 0]}

Next ==
  \E arg \in Vocabularies[vocabulary].args,
     next \in Vocabularies[vocabulary].nexts,
     label \in Labels :
    \E leftover \in LeftoversOf(arg) :
      DoProcessArg(arg, next, label, leftover)

Spec == Init /\ [][Next]_vars

NextTwice ==
  \E arg \in Vocabularies[vocabulary].args,
     next \in Vocabularies[vocabulary].nexts,
     label \in Labels, label2 \in Labels :
    \E leftover \in LeftoversOf(arg) :
      DoProcessArgTwice(arg, next, label, label2, leftover)

SpecTwice == Init /\ [][NextTwice]_vars

\* -------------------------------------------------------------- the launch
\* what every step of the launch leaves alone: the parser's state, the
\* second run and the environment
LaunchFrame ==
  UNCHANGED <<env_TEST_TMPDIR, argstr, next_argstr, rcfile, ret,
              is_space_separated, error, vocabulary, assigned, stream_ok,
              last_flag, store2, rcfile2, ret2, default_javabase, fs>>

\* options.ValidateStartupOptions(args, &error), once every token was accepted
DoValidateStartupOptions ==
  /\ phase = "parsing"
  /\ stream_ok
  /\ phase' = "validated"
  /\ op' = "ValidateStartupOptions"
  /\ returned' = SUCCESS
  /\ UNCHANGED <<store, exit_status, result, write_ok, javabase_queries,
                 javabase_returned>>
  /\ LaunchFrame

\* the launch runs after validation, for as long as the process lives
Launching == phase = "validated" /\ exit_status = "running"

DoGetHostJavabase ==
  /\ Launching
  /\ \E c \in {GetHostJavabaseCall(store, default_javabase, javabase_queries)} :
       /\ c.queries <= MaxQueries
       /\ store' = c.store
       /\ returned' = c.value
       /\ javabase_queries' = c.queries
       /\ javabase_returned' = javabase_returned \cup {c.value}
  /\ op' = "GetHostJavabase"
  /\ UNCHANGED <<phase, exit_status, result, write_ok>>
  /\ LaunchFrame

DoGetJvm ==
  /\ Launching
  /\ \E c \in {GetJvmCall(store, default_javabase, fs, javabase_queries)} :
       /\ c.queries <= MaxQueries
       /\ store' = c.store
       /\ javabase_queries' = c.queries
       /\ exit_status' = IF c.exits THEN "exit(1)" ELSE "running"
       /\ returned' = c.value
  /\ op' = "GetJvm"
  /\ UNCHANGED <<phase, result, write_ok, javabase_returned>>
  /\ LaunchFrame

\* options.GetExe(jvm, jar_path)
DoGetExe(jvm, jar_path) ==
  /\ Launching
  /\ op' = "GetExe"
  /\ returned' = jvm
  /\ UNCHANGED <<store, phase, exit_status, result, write_ok,
                 javabase_queries, javabase_returned>>
  /\ LaunchFrame

\* options.AddJVMArgumentPrefix(javabase, &result): an empty body
DoAddJVMArgumentPrefix(javabase) ==
  /\ Launching
  /\ op' = "AddJVMArgumentPrefix"
  /\ returned' = ""
  /\ UNCHANGED <<store, phase, exit_status, result, write_ok,
                 javabase_queries, javabase_returned>>
  /\ LaunchFrame

DoAddJVMArgumentSuffix(real_install_dir, jar_path) ==
  /\ Launching
  /\ Len(result) + 2 <= MaxResult
  /\ result' = AddJVMArgumentSuffixCall(real_install_dir, jar_path, result)
  /\ op' = "AddJVMArgumentSuffix"
  /\ returned' = ""
  /\ UNCHANGED <<store, phase, exit_status, write_ok, javabase_queries,
                 javabase_returned>>
  /\ LaunchFrame

\* options.AddJVMArguments(host_javabase, &result, user_options, &error);
\* WriteFile succeeds or fails as the file system decides
DoAddJVMArguments(written) ==
  /\ Launching
  /\ \E c \in {AddJVMArgumentsCall(store, result, written)} :
       /\ Len(c.result) <= MaxResult
       /\ result' = c.result
       /\ returned' = c.ret
  /\ write_ok' = written
  /\ op' = "AddJVMArguments"
  /\ UNCHANGED <<store, phase, exit_status, javabase_queries,
                 javabase_returned>>
  /\ LaunchFrame

\* the arguments the client passes: the launcher, the server jar and the
\* install directory
Jvms == {"/usr/lib/jvm/bin/java"}
JarPaths == {"A-server.jar"}
InstallDirs == {"/install"}

NextLaunch ==
  \/ \E arg \in Vocabularies[vocabulary].args,
        next \in Vocabularies[vocabulary].nexts,
        label \in Labels :
       \E leftover \in LeftoversOf(arg) :
         DoProcessArg(arg, next, label, leftover)
  \/ DoValidateStartupOptions
  \/ DoGetHostJavabase
  \/ DoGetJvm
  \/ \E jvm \in Jvms, jar_path \in JarPaths : DoGetExe(jvm, jar_path)
  \/ \E javabase \in DefaultJavabases : DoAddJVMArgumentPrefix(javabase)
  \/ \E dir \in InstallDirs, jar_path \in JarPaths :
       DoAddJVMArgumentSuffix(dir, jar_path)
  \/ \E written \in BOOLEAN : DoAddJVMArguments(written)

InitLaunch == Init /\ vocabulary = "launch"

SpecLaunch == InitLaunch /\ [][NextLaunch]_vars

\* ================================================================ properties
\* How a token reads, independently of the parser.
IsUnaryToken(arg, key) == arg = key \/ StartsWith(arg, key \o "=")
HasValue(arg, next, key) == StartsWith(arg, key \o "=") \/ (arg = key /\ next # "")
ValueText(arg, next, key) ==
  IF arg = key THEN next ELSE SubSeq(arg, Len(key) + 2, Len(arg))

\* the part of a token before its first "="
TokenKey(arg) ==
  IF \E i \in 1..Len(arg) : CharAt(arg, i) = "="
    THEN LET i == CHOOSE i \in 1..Len(arg) :
                    /\ CharAt(arg, i) = "="
                    /\ \A j \in 1..(i - 1) : CharAt(arg, j) # "="
         IN SubSeq(arg, 1, i - 1)
    ELSE arg

\* flags that have a --no spelling in the grammar of section 6
NegatableFlags ==
  {BoolFlag[m] : m \in BoolMembers} \cup {"master_bazelrc", "master_blazerc"}

\* the name of the option a token spells: --name, --name=v, --noname, -x
OptionOfToken(arg) ==
  LET key == TokenKey(arg)
  IN IF key = "-x" THEN "x"
     ELSE IF \E f \in NegatableFlags : key = "--no" \o f
       THEN SubSeq(key, 5, Len(key))
     ELSE SubSeq(key, 3, Len(key))

\* the option name under which a member's provenance is kept
OptionNameOf(member) ==
  CASE member = "oom_more_eagerly" -> "experimental_oom_more_eagerly"
    [] member = "oom_more_eagerly_threshold" ->
         "experimental_oom_more_eagerly_threshold"
    [] OTHER -> member

Sources == store.option_sources
SourceIs(name, label) == name \in DOMAIN Sources /\ Sources[name] = label

\* C1: a ProcessArg call that fails leaves every option field and every
\* option_sources entry exactly as it was before the call.
C1_FailureLeavesStoreUnchanged == [][ret' # SUCCESS => store' = store]_vars

\* C2: option_sources has an entry under an option's name exactly when that
\* option's member was assigned by some ProcessArg call, and no other entry.
C2_ProvenanceIffAssigned ==
  DOMAIN Sources = {OptionNameOf(m) : m \in assigned}

\* C3: every successful call leaves option_sources[name] equal to the call's
\* source label, name being the option the token spells.
C3_SuccessRecordsSource ==
  ret = SUCCESS => SourceIs(OptionOfToken(argstr), rcfile)

\* C4: while the stream is being processed (no call has failed), every
\* boolean option holds the value of the last token that spelled it, and its
\* provenance is that token's source label.
C4_LastFlagWins ==
  stream_ok =>
    \A m \in BoolMembers :
      last_flag[m].seen =>
        /\ store[m] = last_flag[m].value
        /\ SourceIs(BoolFlag[m], last_flag[m].label)

\* a later token reversed an earlier one that came under another label
C4_Witness ==
  /\ stream_ok
  /\ last_flag["batch"].overrode
  /\ last_flag["batch"].label = ""
  /\ ~store.batch

\* C5: --invocation_policy is assigned at most once: with no policy stored, an
\* occurrence with a value succeeds and stores value and label; with a policy
\* stored, every occurrence is BAD_ARGV, whatever its label, and changes nothing.
C5_InvocationPolicyOnce ==
  [][ /\ (HasValue(argstr', next_argstr', "--invocation_policy")
            /\ store.invocation_policy.null) =>
           /\ ret' = SUCCESS
           /\ store'.invocation_policy =
                Policy(ValueText(argstr', next_argstr', "--invocation_policy"))
           /\ store'.option_sources["invocation_policy"] = rcfile'
      /\ (IsUnaryToken(argstr', "--invocation_policy")
            /\ ~store.invocation_policy.null) =>
           /\ ret' = BAD_ARGV
           /\ store' = store
      /\ ~store.invocation_policy.null =>
           store'.invocation_policy = store.invocation_policy ]_vars

\* a second occurrence, under another label than the first, was refused
C5_Witness ==
  /\ HasValue(argstr, next_argstr, "--invocation_policy")
  /\ ret = BAD_ARGV
  /\ store.invocation_policy = Policy("p")
  /\ ValueText(argstr, next_argstr, "--invocation_policy") = "q"
  /\ ~SourceIs("invocation_policy", rcfile)

\* the tokens the parser accepts from the command line only
IsRcToken(arg, next) ==
  \/ HasValue(arg, next, "--bazelrc")
  \/ HasValue(arg, next, "--blazerc")
  \/ arg \in {"--master_bazelrc", "--nomaster_bazelrc",
              "--master_blazerc", "--nomaster_blazerc"}

\* C6: --bazelrc/--blazerc with a value and --[no]master_bazelrc/_blazerc are
\* BAD_ARGV under a non-empty source label, changing nothing in the store, and
\* SUCCESS under the empty label.
C6_RcOptionsOnlyOnCommandLine ==
  [][ IsRcToken(argstr', next_argstr') =>
        IF rcfile' # "" THEN ret' = BAD_ARGV /\ store' = store
                        ELSE ret' = SUCCESS ]_vars

\* --bazelrc with a value in the next token was refused inside an rc file
C6_Witness ==
  /\ argstr = "--bazelrc"
  /\ next_argstr = "/x"
  /\ rcfile # ""
  /\ ret = BAD_ARGV
  /\ error # ""

\* the options that take a value
UnaryKeys ==
  {"--output_base", "--install_base", "--output_user_root", "--host_jvm_profile",
   "--host_javabase", "--host_jvm_args", "--bazelrc", "--blazerc",
   "--io_nice_level", "--max_idle_secs",
   "--experimental_oom_more_eagerly_threshold", "--command_port",
   "--invocation_policy"}

\* C7: after a successful call is_space_separated is true exactly when the
\* matched option took its value from the next token, that is when the token
\* is the bare `--name` of an option that takes a value.
C7_SpaceSeparatedIffNextConsumed ==
  ret = SUCCESS => (is_space_separated <=> argstr \in UnaryKeys)

\* a value taken from the next token was reported as consumed
C7_Witness ==
  /\ ret = SUCCESS
  /\ argstr = "--output_base"
  /\ next_argstr = "y"
  /\ is_space_separated
  /\ store.output_base = "/cwd/y"

\* the validated numeric options: member and documented range
NumericOptions ==
  [ io_nice_level |->
      [key |-> "--io_nice_level", lo |-> kint32min, hi |-> 7],
    max_idle_secs |->
      [key |-> "--max_idle_secs", lo |-> 0, hi |-> kint32max],
    oom_more_eagerly_threshold |->
      [key |-> "--experimental_oom_more_eagerly_threshold",
       lo |-> 0, hi |-> kint32max],
    command_port |->
      [key |-> "--command_port", lo |-> -1, hi |-> 65535] ]

\* the decimal texts among the values fed in, and the 32-bit integers they
\* denote; every other text fed in denotes none
IntOfText ==
  [ t \in {"7", "8", "-1", "-2", "-20", "0", "15", "80", "100", "65535",
           "65536", "2147483647"} |->
      CASE t = "7" -> 7 [] t = "8" -> 8 [] t = "-1" -> -1 [] t = "-2" -> -2
        [] t = "-20" -> -20 [] t = "0" -> 0 [] t = "15" -> 15 [] t = "80" -> 80
        [] t = "100" -> 100 [] t = "65535" -> 65535 [] t = "65536" -> 65536
        [] t = "2147483647" -> kint32max ]

\* C8: a call on a validated numeric option succeeds and stores the integer
\* exactly when the value is a 32-bit integer inside the documented range;
\* otherwise it is BAD_ARGV and the error message contains the value text.
C8_NumericRange ==
  \A m \in DOMAIN NumericOptions :
    LET o == NumericOptions[m]
        v == ValueText(argstr, next_argstr, o.key)
        valid == /\ v \in DOMAIN IntOfText
                 /\ o.lo <= IntOfText[v]
                 /\ IntOfText[v] <= o.hi
    IN (ret # "NONE" /\ IsUnaryToken(argstr, o.key)) =>
         /\ (ret = SUCCESS /\ store[m] = IntOfText[v]) <=> valid
         /\ ~valid => (ret = BAD_ARGV /\ Contains(error, v))

\* `--io_nice_level 8` was refused with the value in the message
C8_Witness ==
  /\ argstr = "--io_nice_level"
  /\ next_argstr = "8"
  /\ ret = BAD_ARGV
  /\ Contains(error, "'8'")

\* the option fields: the store without its provenance map
Fields(s) == [s EXCEPT !.option_sources = EmptyMap]

\* C9: two runs fed the same tokens under different source labels, every
\* call succeeding in both, end with the same values in all option fields.
C9_PrecedenceIgnoresLabels ==
  (ret # BAD_ARGV /\ ret2 # BAD_ARGV) => Fields(store) = Fields(store2)

\* in one run the command line overrode an rc file, in the other the rc file
\* overrode the command line, and both ended with batch off
C9_Witness ==
  /\ ret = SUCCESS
  /\ ret2 = SUCCESS
  /\ argstr = "--nobatch"
  /\ last_flag["batch"].overrode
  /\ rcfile = ""
  /\ rcfile2 # ""
  /\ ~store.batch
  /\ ~store2.batch
  /\ store.option_sources # store2.option_sources

\* C10 as stated: each of the nine boolean options has both spellings.
C10_BothSpellings ==
  \A m \in BoolMembers :
    /\ argstr = "--" \o BoolFlag[m] =>
         ret = SUCCESS /\ store[m] = TRUE /\ SourceIs(BoolFlag[m], rcfile)
    /\ argstr = "--no" \o BoolFlag[m] =>
         ret = SUCCESS /\ store[m] = FALSE /\ SourceIs(BoolFlag[m], rcfile)

\* the spellings the parser has: all but --block_for_lock, --nohost_jvm_debug
HasFlagSpelling(m) == m # "block_for_lock"
HasNoFlagSpelling(m) == m # "host_jvm_debug"

\* C10 (amended): every boolean option but block_for_lock has `--flag`, which
\* succeeds, sets the field to true and records provenance; every one but
\* host_jvm_debug has `--noflag`, which succeeds, sets it to false and records
\* provenance; --block_for_lock and --nohost_jvm_debug are BAD_ARGV.
C10_RecognisedSpellings ==
  \A m \in BoolMembers :
    /\ argstr = "--" \o BoolFlag[m] =>
         IF HasFlagSpelling(m)
           THEN ret = SUCCESS /\ store[m] = TRUE /\ SourceIs(BoolFlag[m], rcfile)
           ELSE ret = BAD_ARGV
    /\ argstr = "--no" \o BoolFlag[m] =>
         IF HasNoFlagSpelling(m)
           THEN ret = SUCCESS /\ store[m] = FALSE /\ SourceIs(BoolFlag[m], rcfile)
           ELSE ret = BAD_ARGV

\* the only spelling of block_for_lock turned its default off, from an rc file
C10_Witness ==
  /\ argstr = "--noblock_for_lock"
  /\ ret = SUCCESS
  /\ ~store.block_for_lock
  /\ rcfile # ""
  /\ SourceIs("block_for_lock", rcfile)

\* the spellings of the options that take no value
NullaryTokens ==
  {"--deep_execroot", "--nodeep_execroot", "--noblock_for_lock",
   "--host_jvm_debug", "--nomaster_blazerc", "--master_blazerc",
   "--nomaster_bazelrc", "--master_bazelrc", "--batch", "--nobatch",
   "--batch_cpu_scheduling", "--nobatch_cpu_scheduling",
   "--allow_configurable_attributes", "--noallow_configurable_attributes",
   "--fatal_event_bus_exceptions", "--nofatal_event_bus_exceptions", "-x",
   "--experimental_oom_more_eagerly", "--noexperimental_oom_more_eagerly",
   "--watchfs", "--nowatchfs"}

\* the token (with the token after it) spells a built-in option
MatchesBuiltin(arg, next) ==
  \/ arg \in NullaryTokens
  \/ \E key \in UnaryKeys : HasValue(arg, next, key)

\* C11: with the base ProcessArgExtra, a token that matches no built-in option
\* is BAD_ARGV, the message quotes the token and gives the hint to run the
\* product's `help startup_options`, and the store does not change.
C11_UnknownOptionRejected ==
  [][ ~MatchesBuiltin(argstr', next_argstr') =>
        /\ ret' = BAD_ARGV
        /\ Contains(error', "'" \o argstr' \o "'")
        /\ Contains(error', PRODUCT_NAME \o " help startup_options")
        /\ store' = store ]_vars

\* an unknown token was refused after an earlier token had set an option
C11_Witness ==
  /\ argstr = "--unknown"
  /\ ret = BAD_ARGV
  /\ Contains(error, "Unknown Bazel startup option: '--unknown'.")
  /\ store.batch

\* C12: ProcessArg returns SUCCESS or BAD_ARGV and nothing else, and every
\* failure comes with a non-empty error message.
C12_SingleClassification ==
  /\ ret \in {"NONE", SUCCESS, BAD_ARGV}
  /\ ret = BAD_ARGV => error # ""

\* a token handed to the extension hook came back as BAD_ARGV with a message
C12_Witness ==
  /\ argstr = "build"
  /\ ~MatchesBuiltin(argstr, next_argstr)
  /\ ret = BAD_ARGV
  /\ error # ""

\* the store a fresh StartupOptions is expected to hold
ExpectedDefaults(output_root) ==
  [output_root |-> output_root,
   product_name |-> "Bazel",
   output_user_root |-> output_root \o "/_bazel_user",
   output_base |-> "", install_base |-> "",
   deep_execroot |-> TRUE, block_for_lock |-> TRUE,
   host_jvm_debug |-> FALSE, host_jvm_profile |-> "", host_javabase |-> "",
   host_jvm_args |-> <<>>,
   batch |-> FALSE, batch_cpu_scheduling |-> FALSE,
   allow_configurable_attributes |-> FALSE,
   fatal_event_bus_exceptions |-> FALSE,
   io_nice_level |-> -1,
   max_idle_secs |-> IF env_TEST_TMPDIR.null THEN 10800 ELSE 15,
   oom_more_eagerly_threshold |-> 100, command_port |-> 0,
   oom_more_eagerly |-> FALSE, watchfs |-> FALSE,
   invocation_policy |-> NoPolicy, option_sources |-> EmptyMap]

\* C17: before any token is processed the store holds the defaults:
\* max_idle_secs 15 in test mode and 10800 otherwise, output_root the
\* absolutized TEST_TMPDIR or the default output root, output_user_root
\* output_root joined with "_bazel_<user>", deep_execroot and block_for_lock
\* true, every other boolean false, io_nice_level -1, the threshold 100,
\* command_port 0, no invocation policy and no provenance.
C17_Defaults ==
  ret = "NONE" =>
    store = ExpectedDefaults(IF env_TEST_TMPDIR.null
                               THEN "/home/user/.cache"
                               ELSE IF SubSeq(env_TEST_TMPDIR.str, 1, 1) = "/"
                                 THEN env_TEST_TMPDIR.str
                                 ELSE "/cwd/" \o env_TEST_TMPDIR.str)

\* a fresh store in test mode, with a relative TEST_TMPDIR
C17_Witness ==
  /\ ret = "NONE"
  /\ ~env_TEST_TMPDIR.null
  /\ store.max_idle_secs = 15
  /\ store.output_user_root = "/cwd/t/_bazel_user"

\* the options whose value is a path, with the member each one sets
PathMember ==
  [k \in {"--output_base", "--install_base", "--output_user_root",
          "--host_javabase"} |-> SubSeq(k, 3, Len(k))]

\* what absolutePath is expected to give in the working directory /cwd
AbsolutePath(v) ==
  IF v = "" \/ SubSeq(v, 1, 1) = "/" THEN v ELSE "/cwd/" \o v

\* the step processes a path option and leaves the store as expected
PathOptionStored(key) ==
  /\ ret' = SUCCESS
  /\ store' = [store EXCEPT
                 ![PathMember[key]] =
                    AbsolutePath(ValueText(argstr', next_argstr', key)),
                 !.option_sources = Put(@, PathMember[key], rcfile')]
  /\ is_space_separated' = (argstr' = key)

\* C18 as stated: for a path option, any value v and any label, --name=v and
\* --name followed by v both succeed and leave the same store: the field is
\* absolutePath(v), the provenance entry is the label, and only
\* is_space_separated tells the two forms apart.
C18_PathAnyValue ==
  [][ \A key \in DOMAIN PathMember :
        IsUnaryToken(argstr', key) => PathOptionStored(key) ]_vars

\* C18: for a path option, any non-empty value v and any label, --name=v and
\* --name followed by v both succeed and leave the same store: the field is
\* absolutePath(v), the provenance entry is the label, and only
\* is_space_separated tells the two forms apart; --name=  with an empty value
\* succeeds too and stores the empty path.
C18_PathBothForms ==
  [][ \A key \in DOMAIN PathMember :
        HasValue(argstr', next_argstr', key) => PathOptionStored(key) ]_vars

\* a relative path taken from the next token was stored absolutized
C18_Witness ==
  /\ argstr = "--host_javabase"
  /\ next_argstr = "y"
  /\ ret = SUCCESS
  /\ is_space_separated
  /\ store.host_javabase = "/cwd/y"
  /\ SourceIs("host_javabase", rcfile)

\* C19: host_jvm_args grows by the value of every --host_jvm_args token, in
\* processing order and keeping duplicates, and no other token touches it;
\* its provenance entry holds the label of the most recent such token only.
C19_HostJvmArgsAccumulate ==
  [][ IF HasValue(argstr', next_argstr', "--host_jvm_args")
        THEN /\ ret' = SUCCESS
             /\ store'.host_jvm_args =
                  Append(store.host_jvm_args,
                         ValueText(argstr', next_argstr', "--host_jvm_args"))
             /\ "host_jvm_args" \in DOMAIN store'.option_sources
             /\ store'.option_sources["host_jvm_args"] = rcfile'
        ELSE /\ store'.host_jvm_args = store.host_jvm_args
             /\ \/ /\ "host_jvm_args" \notin DOMAIN store.option_sources
                   /\ "host_jvm_args" \notin DOMAIN store'.option_sources
                \/ /\ "host_jvm_args" \in DOMAIN store.option_sources
                   /\ "host_jvm_args" \in DOMAIN store'.option_sources
                   /\ store'.option_sources["host_jvm_args"] =
                        store.option_sources["host_jvm_args"] ]_vars

\* the same value was given twice and the list holds it twice
C19_Witness ==
  /\ store.host_jvm_args = <<"a", "a">>
  /\ argstr = "--host_jvm_args"
  /\ next_argstr = "a"
  /\ SourceIs("host_jvm_args", rcfile)

\* the member an option name owns, if any
MemberOfOption(name) ==
  {m \in DOMAIN store \ {"option_sources", "output_root", "product_name"} :
     OptionNameOf(m) = name}

\* C20: a successful call that matches a built-in option changes at most that
\* option's own field and the provenance entry under that option's name; every
\* other field and every other provenance entry stays as it was, and -x
\* changes nothing.
C20_FrameOfSuccessfulCall ==
  [][ (ret' = SUCCESS /\ MatchesBuiltin(argstr', next_argstr')) =>
        LET name == OptionOfToken(argstr')
        IN /\ \A m \in DOMAIN store \ ({"option_sources"} \cup MemberOfOption(name)) :
                store'[m] = store[m]
           /\ \A k \in (DOMAIN store.option_sources
                          \cup DOMAIN store'.option_sources) \ {name} :
                /\ k \in DOMAIN store.option_sources
                /\ k \in DOMAIN store'.option_sources
                /\ store'.option_sources[k] = store.option_sources[k]
           /\ argstr' = "-x" => store' = store ]_vars

\* C13 as stated: after ValidateStartupOptions no operation of the runtime
\* resolver changes any option field or any option_sources entry.
C13_ReadOnlyAfterValidation ==
  [][ phase = "validated" => store' = store ]_vars

\* C13: after ValidateStartupOptions no operation of the runtime resolver
\* changes option_sources or any option field other than host_javabase;
\* GetHostJavabase, and GetJvm through it, store the default runtime base in
\* host_javabase when that field is empty.
C13_OnlyJavabaseMemoized ==
  [][ phase = "validated" =>
        /\ store' = [store EXCEPT !.host_javabase = store'.host_javabase]
        /\ store'.host_javabase # store.host_javabase =>
             /\ op' \in {"GetHostJavabase", "GetJvm"}
             /\ store.host_javabase = ""
             /\ store'.host_javabase = default_javabase ]_vars

\* after validation GetHostJavabase filled in the default runtime base, and
\* the options set while parsing and their provenance are as they were
C13_Witness ==
  /\ phase = "validated"
  /\ op = "GetHostJavabase"
  /\ store.host_javabase = "/usr/lib/jvm"
  /\ "host_javabase" \notin DOMAIN store.option_sources
  /\ store.output_base = "/out"
  /\ SourceIs("output_base", "/home/user/.bazelrc")

\* C14: GetHostJavabase returns the --host_javabase value when set and the
\* collaborator's default otherwise; the result is memoized, so over any
\* number of calls the collaborator is asked at most once and every call
\* returns the same value, an empty default included.
C14_JavabaseMemoized ==
  /\ javabase_queries <= 1
  /\ Cardinality(javabase_returned) <= 1
  /\ op = "GetHostJavabase" =>
       returned = IF "host_javabase" \in DOMAIN store.option_sources
                    THEN store.host_javabase
                    ELSE default_javabase

\* the runtime base GetJvm works with: the option, or else the default
RuntimeBase(s) == IF s.host_javabase # "" THEN s.host_javabase ELSE default_javabase

\* the launcher under the base can be executed and an rt.jar can be read
JavaInstallationOk(base) ==
  /\ (base \o "/bin/java") \in fs.executable
  /\ \/ (base \o "/jre/lib/rt.jar") \in fs.readable
     \/ (base \o "/lib/rt.jar") \in fs.readable

\* C15: GetJvm returns <runtime base>/bin/java exactly when that launcher is
\* executable and <base>/jre/lib/rt.jar or <base>/lib/rt.jar is readable; in
\* every other case the process ends with status 1, and nothing runs after.
C15_GetJvm ==
  [][ /\ exit_status = "running"
      /\ op' = "GetJvm" =>
           IF JavaInstallationOk(RuntimeBase(store))
             THEN /\ exit_status' = "running"
                  /\ returned' = RuntimeBase(store) \o "/bin/java"
             ELSE exit_status' = "exit(1)" ]_vars

\* GetJvm found the launcher of a JRE, whose rt.jar is under lib
C15_Witness ==
  /\ op = "GetJvm"
  /\ exit_status = "running"
  /\ returned = "/opt/jre/bin/java"
  /\ "/opt/jre/jre/lib/rt.jar" \notin fs.readable

\* GetJvm ended the process: the launcher is there but may not be executed
C15_WitnessExit ==
  /\ op = "GetJvm"
  /\ exit_status = "exit(1)"
  /\ store.host_javabase = "/opt/jdk"
  /\ "/opt/jdk/jre/lib/rt.jar" \in fs.readable

\* C16: AddJVMArguments returns SUCCESS whether or not the logging file could
\* be written and never ends the process; it appends the one argument
\* -Djava.util.logging.config.file=<output_base>/javalog.properties when the
\* write succeeded and nothing when it failed, after the arguments already
\* there.
C16_AddJVMArguments ==
  [][ op' = "AddJVMArguments" =>
        /\ returned' = SUCCESS
        /\ exit_status' = exit_status
        /\ result' = IF write_ok'
                       THEN result \o <<"-Djava.util.logging.config.file="
                                          \o store.output_base
                                          \o "/javalog.properties">>
                       ELSE result ]_vars

\* the logging option was added after the two arguments already there
C16_Witness ==
  /\ op = "AddJVMArguments"
  /\ write_ok
  /\ returned = SUCCESS
  /\ result = <<"-jar", "/install/A-server.jar",
                "-Djava.util.logging.config.file=/out/javalog.properties">>

\* the write failed: SUCCESS all the same, and the arguments are as before
C16_WitnessWriteFailed ==
  /\ op = "AddJVMArguments"
  /\ ~write_ok
  /\ returned = SUCCESS
  /\ exit_status = "running"
  /\ result = <<"-jar", "/install/A-server.jar">>

====
